---- MODULE Spec2Model ----
(***************************************************************************)
(* CryptoScalp (src/app.py): one Streamlit script run per user action.     *)
(* A run reads the sidebar widgets, and when "Scan Market" was pressed it  *)
(* fetches the bars, annotates them with RSI(14) and Bollinger Bands(20,2) *)
(* (pandas_ta), classifies every bar in generate_signals and renders four  *)
(* metrics and a chart.                                                    *)
(*                                                                         *)
(* Prices and indicator values are modelled as integers (only their order  *)
(* matters to the code), a float cell as [t |-> "f", v |-> x], NaN and     *)
(* None as cells of their own.  A data frame is a function from the names  *)
(* of its columns to sequences of cells (index 0 of the code is index 1    *)
(* here).  yfinance and pandas_ta are outside the repository: the values   *)
(* they produce are chosen nondeterministically from bounded families that *)
(* keep the libraries' definedness pattern.                                *)
(***************************************************************************)
EXTENDS Integers, Sequences, FiniteSets, TLC

VARIABLES
    pc,             \* position of the script run
    rsi_upper,      \* slider value, app.py:36
    rsi_lower,      \* slider value, app.py:37
    df,             \* the data frame of the run (NoDf: None)
    buy_signals,    \* local list of generate_signals
    sell_signals,   \* local list of generate_signals
    i,              \* number of completed iterations of the loop at app.py:71
    out,            \* what the run has rendered so far
    calls,          \* the functions the run has entered
    fetch_outcome,  \* what yf.download did in this run
    metrics,        \* the four values shown by col1..col4.metric
    first,          \* result of an earlier generate_signals call (two-call runs)
    df2             \* frame waiting for the second call (two-call runs)

vars == <<pc, rsi_upper, rsi_lower, df, buy_signals, sell_signals, i, out,
          calls, fetch_outcome, metrics, first, df2>>

----------------------------------------------------------------------------
(* Bounds of the model *)

\* longest series the data source returns
MaxBars == 21

(* Program constants *)

RSI_LENGTH == 14
BB_LENGTH == 20
RsiUpperMin == 70
RsiUpperMax == 90
RsiUpperDefault == 75
RsiLowerMin == 10
RsiLowerMax == 30
RsiLowerDefault == 25

----------------------------------------------------------------------------
(* Cells *)

Num(x) == [t |-> "f", v |-> x]
NaN == [t |-> "nan", v |-> 0]
None == [t |-> "none", v |-> 0]
IsNum(c) == c.t = "f"

\* Python's < and > on floats: False as soon as one side is NaN.
Lt(a, b) == IsNum(a) /\ IsNum(b) /\ a.v < b.v
Gt(a, b) == IsNum(a) /\ IsNum(b) /\ a.v > b.v

\* float - float
Sub(a, b) == IF IsNum(a) /\ IsNum(b) THEN Num(a.v - b.v) ELSE NaN

----------------------------------------------------------------------------
(* Frames *)

NoDf == [none |-> TRUE]
NoCall == [none |-> TRUE]
NoMetrics == [none |-> TRUE]

HasCol(d, c) == c \in DOMAIN d
Length(d) == IF HasCol(d, "Close") THEN Len(d.Close) ELSE 0
WithCols(d, cols) == cols @@ d

\* the values the sliders offer (their ends and their default)
UpperChoices == {RsiUpperMin, RsiUpperDefault, RsiUpperMax}
LowerChoices == {RsiLowerMin, RsiLowerDefault, RsiLowerMax}

\* Prices: 3 is inside the bands below, 2 and 4 lie on them, 1 and 5 outside.
CloseVals == 1..5
QuietClose == Num(3)
\* RSI values around every threshold the sliders offer, and 0/0 of a flat series
RsiVals == {Num(5), Num(10), Num(25), Num(50), Num(75), Num(90), Num(95), NaN}
QuietRsi == Num(50)

\* The series yf.download may return: n bars, at most one of them away from
\* the quiet price.
CloseSeries(n) ==
    IF n = 0 THEN {<<>>}
    ELSE {[j \in 1..n |-> IF j = k THEN Num(c) ELSE QuietClose] :
             k \in 1..n, c \in CloseVals}
RawFrames == {[Close |-> s] : s \in UNION {CloseSeries(n) : n \in 0..MaxBars}}

\* the bars of a series that may carry an unusual indicator value
Special(close) ==
    LET dev == {j \in 1..Len(close) : close[j] # QuietClose}
    IN  IF dev = {} THEN 1..Len(close) ELSE dev

----------------------------------------------------------------------------
(* pandas_ta, as apply_strategy uses it *)

\* df.ta.rsi(length=14): nothing below 14 bars; otherwise a column that is NaN
\* on the first 14 bars (and wherever gains and losses are both 0).
RsiColumns(close) ==
    LET n == Len(close)
    IN  {[j \in 1..n |-> IF j <= RSI_LENGTH THEN NaN
                          ELSE IF j = k THEN r ELSE QuietRsi] :
            k \in Special(close), r \in RsiVals}

\* df.ta.bbands(length=20, std=2): nothing below 20 bars; otherwise the three
\* band columns, NaN on the first 19 bars, lower <= middle <= upper after.
BandColumns(close) ==
    LET n == Len(close)
        col(x) == [j \in 1..n |-> IF j < BB_LENGTH THEN NaN ELSE Num(x)]
    IN  IF n < BB_LENGTH THEN <<>>
        ELSE [BB_Lower |-> col(2), BB_Middle |-> col(3), BB_Upper |-> col(4)]

\* The frames apply_strategy returns for a fetched frame that has at least
\* 14 bars.
Annotated(d) ==
    {WithCols(d, [RSI |-> r] @@ BandColumns(d.Close)) : r \in RsiColumns(d.Close)}

\* Below 14 bars rsi() yields no series: the RSI column is all None.
AnnotatedShort(d) ==
    WithCols(d, [RSI |-> [j \in 1..Length(d) |-> None]] @@ BandColumns(d.Close))

----------------------------------------------------------------------------
(* generate_signals, one iteration of its loop *)

\* fault variant of line 74: "not (a >= b)" written for "a < b"
BuyCond_NotGe(d, k, lower) ==
    /\ ~(IsNum(d.Close[k]) /\ IsNum(d.BB_Lower[k]) /\ d.Close[k].v >= d.BB_Lower[k].v)
    /\ ~(IsNum(d.RSI[k]) /\ d.RSI[k].v >= lower)
\* fault variant of line 74: df['RSI'].iloc[-1] (as at line 102) for iloc[i]
BuyCond_LastRsi(d, k, lower) ==
    /\ Lt(d.Close[k], d.BB_Lower[k])
    /\ Lt(d.RSI[Len(d.RSI)], Num(lower))
\* app.py:74
BuyCond(d, k, lower) ==
    /\ Lt(d.Close[k], d.BB_Lower[k])
    /\ Lt(d.RSI[k], Num(lower))

\* fault variant of line 79: rsi >= rsi_upper
SellCond_Ge(d, k, upper) ==
    /\ Gt(d.Close[k], d.BB_Upper[k])
    /\ IsNum(d.RSI[k]) /\ d.RSI[k].v >= upper
\* app.py:79
SellCond(d, k, upper) ==
    /\ Gt(d.Close[k], d.BB_Upper[k])
    /\ Gt(d.RSI[k], Num(upper))

\* fault variant of line 81: the close appended to buy_signals too
BuyAppended_Both(d, k, lower, upper) ==
    IF BuyCond(d, k, lower) \/ SellCond(d, k, upper)
    THEN <<d.Close[k]>> ELSE <<None>>
\* fault variant of line 81: the append to buy_signals left out
BuyAppended_Skip(d, k, lower, upper) ==
    IF BuyCond(d, k, lower) THEN <<d.Close[k]>>
    ELSE IF SellCond(d, k, upper) THEN <<>>
    ELSE <<None>>
\* what iteration k appends to buy_signals (app.py:75, 81, 84)
BuyAppended(d, k, lower, upper) ==
    IF BuyCond(d, k, lower) THEN <<d.Close[k]>>
    ELSE IF SellCond(d, k, upper) THEN <<None>>
    ELSE <<None>>

\* what iteration k appends to sell_signals (app.py:76, 80, 85)
SellAppended(d, k, lower, upper) ==
    IF BuyCond(d, k, lower) THEN <<None>>
    ELSE IF SellCond(d, k, upper) THEN <<d.Close[k]>>
    ELSE <<None>>

\* Line 74 reads df['BB_Lower'] in its first iteration: KeyError without it.
LoopRaises(d) == ~HasCol(d, "BB_Lower") \/ ~HasCol(d, "BB_Upper") \/ ~HasCol(d, "RSI")

\* app.py:71-85, the iteration on bar i (index i + 1 here)
LoopBody ==
    /\ i < Length(df)
    /\ ~LoopRaises(df)
    /\ buy_signals' = buy_signals \o BuyAppended(df, i + 1, rsi_lower, rsi_upper)
    /\ sell_signals' = sell_signals \o SellAppended(df, i + 1, rsi_lower, rsi_upper)
    /\ i' = i + 1

\* app.py:87-88: a list of another length than the frame cannot become a column
ColumnsFit == Len(buy_signals) = Length(df) /\ Len(sell_signals) = Length(df)
WithSignals(d) == WithCols(d, [Buy_Signal |-> buy_signals, Sell_Signal |-> sell_signals])

----------------------------------------------------------------------------
(* The script run *)

\* fault variant of line 96: "df is None or not df.empty"
HasData_Inverted(d) == d = NoDf \/ Length(d) > 0
\* app.py:96
HasData(d) == d # NoDf /\ Length(d) > 0

\* fault variant of line 110: last_rsi >= rsi_upper
Status_Ge(last_rsi, upper, lower) ==
    IF IsNum(last_rsi) /\ last_rsi.v >= upper THEN "OVERBOUGHT (Sell Zone)"
    ELSE IF Lt(last_rsi, Num(lower)) THEN "OVERSOLD (Buy Zone)"
    ELSE "NEUTRAL"
\* app.py:109-111
Status(last_rsi, upper, lower) ==
    IF Gt(last_rsi, Num(upper)) THEN "OVERBOUGHT (Sell Zone)"
    ELSE IF Lt(last_rsi, Num(lower)) THEN "OVERSOLD (Buy Zone)"
    ELSE "NEUTRAL"

Fresh ==
    /\ df' = NoDf
    /\ buy_signals' = <<>>
    /\ sell_signals' = <<>>
    /\ i' = 0
    /\ calls' = {}
    /\ fetch_outcome' = "none"
    /\ metrics' = NoMetrics

Ended == pc \in {"ready", "crashed"}

\* The page as first loaded: the script has run once, the button not pressed.
Init ==
    /\ pc = "ready"
    /\ rsi_upper = RsiUpperDefault
    /\ rsi_lower = RsiLowerDefault
    /\ df = NoDf
    /\ buy_signals = <<>>
    /\ sell_signals = <<>>
    /\ i = 0
    /\ out = {"info_start"}
    /\ calls = {}
    /\ fetch_outcome = "none"
    /\ metrics = NoMetrics
    /\ first = NoCall
    /\ df2 = NoDf

\* A widget changed, the button not pressed: the script reruns into its else
\* branch (app.py:157-158).
RerunIdle ==
    /\ Ended
    /\ rsi_upper' \in UpperChoices
    /\ rsi_lower' \in LowerChoices
    /\ Fresh
    /\ out' = {"info_start"}
    /\ pc' = "ready"
    /\ UNCHANGED <<first, df2>>

\* "Scan Market" pressed: the script reruns from the top (app.py:92-93).
ScanMarket ==
    /\ Ended
    /\ rsi_upper' \in UpperChoices
    /\ rsi_lower' \in LowerChoices
    /\ Fresh
    /\ out' = {}
    /\ pc' = "fetch"
    /\ UNCHANGED <<first, df2>>

\* fetch_data, yf.download raises (app.py:44-46)
FetchFails ==
    /\ pc = "fetch"
    /\ calls' = calls \cup {"fetch_data"}
    /\ out' = out \cup {"error_fetch"}
    /\ df' = NoDf
    /\ fetch_outcome' = "failed"
    /\ pc' = "branch"
    /\ UNCHANGED <<rsi_upper, rsi_lower, buy_signals, sell_signals, i, metrics, first, df2>>

\* fetch_data, yf.download returns a frame, possibly empty (app.py:42-43)
FetchReturns ==
    /\ pc = "fetch"
    /\ calls' = calls \cup {"fetch_data"}
    /\ df' \in RawFrames
    /\ fetch_outcome' = "ok"
    /\ pc' = "branch"
    /\ UNCHANGED <<rsi_upper, rsi_lower, buy_signals, sell_signals, i, out, metrics, first, df2>>

\* app.py:96 and 154-155
MainBranch ==
    /\ pc = "branch"
    /\ IF HasData(df)
       THEN pc' = "apply" /\ out' = out
       ELSE pc' = "ready" /\ out' = out \cup {"error_nodata"}
    /\ UNCHANGED <<rsi_upper, rsi_lower, df, buy_signals, sell_signals, i, calls,
                   fetch_outcome, metrics, first, df2>>

\* apply_strategy on at least 14 bars (app.py:48-64)
ApplyStrategy ==
    /\ pc = "apply"
    /\ Length(df) >= RSI_LENGTH
    /\ calls' = calls \cup {"apply_strategy"}
    /\ df' \in Annotated(df)
    /\ pc' = "signals"
    /\ UNCHANGED <<rsi_upper, rsi_lower, buy_signals, sell_signals, i, out,
                   fetch_outcome, metrics, first, df2>>

\* apply_strategy below 14 bars: rsi() returns no series.  Depending on the
\* pandas_ta release the accessor hands back None (an all-None column) or the
\* frame itself, which line 51 cannot store in one column (ValueError).
\* Without a frame (df is None) line 51 raises AttributeError.
ApplyStrategyShort ==
    /\ pc = "apply"
    /\ Length(df) < RSI_LENGTH
    /\ calls' = calls \cup {"apply_strategy"}
    /\ \/ df # NoDf /\ df' = AnnotatedShort(df) /\ pc' = "signals" /\ out' = out
       \/ df' = df /\ pc' = "crashed" /\ out' = out \cup {"exception"}
    /\ UNCHANGED <<rsi_upper, rsi_lower, buy_signals, sell_signals, i,
                   fetch_outcome, metrics, first, df2>>

\* generate_signals, one iteration (app.py:71-85)
GenerateSignalsStep ==
    /\ pc = "signals"
    /\ LoopBody
    /\ calls' = calls \cup {"generate_signals"}
    /\ UNCHANGED <<pc, rsi_upper, rsi_lower, df, out, fetch_outcome, metrics, first, df2>>

\* generate_signals, the iteration raises KeyError (app.py:74)
GenerateSignalsRaises ==
    /\ pc = "signals"
    /\ i < Length(df)
    /\ LoopRaises(df)
    /\ calls' = calls \cup {"generate_signals"}
    /\ pc' = "crashed"
    /\ out' = out \cup {"exception"}
    /\ UNCHANGED <<rsi_upper, rsi_lower, df, buy_signals, sell_signals, i,
                   fetch_outcome, metrics, first, df2>>

\* generate_signals, after the loop (app.py:87-89)
GenerateSignalsReturn ==
    /\ pc = "signals"
    /\ i >= Length(df)
    /\ calls' = calls \cup {"generate_signals"}
    /\ IF ColumnsFit
       THEN df' = WithSignals(df) /\ pc' = "metrics" /\ out' = out
       ELSE df' = df /\ pc' = "crashed" /\ out' = out \cup {"exception"}
    /\ UNCHANGED <<rsi_upper, rsi_lower, buy_signals, sell_signals, i,
                   fetch_outcome, metrics, first, df2>>

\* app.py:100-114
RenderMetrics ==
    /\ pc = "metrics"
    /\ LET n == Length(df)
       IN  metrics' = [price     |-> df.Close[n],
                       rsi       |-> df.RSI[n],
                       condition |-> Status(df.RSI[n], rsi_upper, rsi_lower),
                       width     |-> Sub(df.BB_Upper[n], df.BB_Lower[n])]
    /\ out' = out \cup {"metrics"}
    /\ pc' = "chart"
    /\ UNCHANGED <<rsi_upper, rsi_lower, df, buy_signals, sell_signals, i, calls,
                   fetch_outcome, first, df2>>

\* app.py:116-153
RenderChart ==
    /\ pc = "chart"
    /\ out' = out \cup {"chart", "dataframe"}
    /\ pc' = "ready"
    /\ UNCHANGED <<rsi_upper, rsi_lower, df, buy_signals, sell_signals, i, calls,
                   fetch_outcome, metrics, first, df2>>

Next ==
    \/ RerunIdle
    \/ ScanMarket
    \/ FetchFails
    \/ FetchReturns
    \/ MainBranch
    \/ ApplyStrategy
    \/ ApplyStrategyShort
    \/ GenerateSignalsStep
    \/ GenerateSignalsRaises
    \/ GenerateSignalsReturn
    \/ RenderMetrics
    \/ RenderChart

Spec == Init /\ [][Next]_vars

----------------------------------------------------------------------------
(* generate_signals called on its own: by a caller that sets the two         *)
(* thresholds freely (they are module globals, app.py:36-37), and twice in a *)
(* row on a frame and on a variant of it.                                    *)

\* the frames apply_strategy hands to generate_signals
AnnotatedFrames(n) == UNION {Annotated([Close |-> s]) : s \in CloseSeries(n)}

\* <<rsi_lower, rsi_upper>> as a caller may set them, lower >= upper included
CallerThresholds ==
    {<<RsiLowerDefault, RsiUpperDefault>>, <<RsiUpperDefault, RsiLowerDefault>>,
     <<50, 50>>, <<100, 0>>}

\* df.iloc[:m]
Truncate(d, m) == [c \in DOMAIN d |-> SubSeq(d[c], 1, m)]

\* the frame with bar k replaced by another bar
Replace(d, k, c, r) ==
    [d EXCEPT !.Close[k] = Num(c),
              !.RSI[k] = IF k <= RSI_LENGTH THEN NaN ELSE r]

Variants(d) ==
    {Truncate(d, m) : m \in 0..(Length(d) - 1)}
    \cup {Replace(d, k, 1, Num(5)) : k \in 1..Length(d)}
    \cup {Replace(d, k, 5, Num(95)) : k \in 1..Length(d)}
    \cup {Replace(d, k, 1, NaN) : k \in 1..Length(d)}

\* frames of full length whose unusual bar has its bands defined
PairFrames ==
    {d \in AnnotatedFrames(MaxBars) :
        \A k \in 1..(BB_LENGTH - 1) : d.Close[k] = QuietClose /\ d.RSI[k] \in {NaN, QuietRsi}}

InitCall ==
    /\ pc = "call"
    /\ buy_signals = <<>>
    /\ sell_signals = <<>>
    /\ i = 0
    /\ out = {}
    /\ calls = {"generate_signals"}
    /\ fetch_outcome = "none"
    /\ metrics = NoMetrics
    /\ first = NoCall

InitCaller ==
    /\ InitCall
    /\ \E t \in CallerThresholds : rsi_lower = t[1] /\ rsi_upper = t[2]
    /\ df \in UNION {AnnotatedFrames(n) : n \in BB_LENGTH..MaxBars}
    /\ df2 = NoDf

InitPair ==
    /\ InitCall
    /\ rsi_lower = RsiLowerDefault
    /\ rsi_upper = RsiUpperDefault
    /\ df \in PairFrames
    /\ df2 \in Variants(df)

\* app.py:71-85
CallStep ==
    /\ pc = "call"
    /\ LoopBody
    /\ UNCHANGED <<pc, rsi_upper, rsi_lower, df, out, calls, fetch_outcome, metrics,
                   first, df2>>

\* app.py:87-89
CallReturn ==
    /\ pc = "call"
    /\ i >= Length(df)
    /\ IF ColumnsFit
       THEN df' = WithSignals(df) /\ pc' = "returned"
       ELSE df' = df /\ pc' = "crashed"
    /\ UNCHANGED <<rsi_upper, rsi_lower, buy_signals, sell_signals, i, out, calls,
                   fetch_outcome, metrics, first, df2>>

\* the caller keeps the first result and calls generate_signals on the variant
SecondCall ==
    /\ pc = "returned"
    /\ first = NoCall
    /\ df2 # NoDf
    /\ first' = df
    /\ df' = df2
    /\ df2' = NoDf
    /\ buy_signals' = <<>>
    /\ sell_signals' = <<>>
    /\ i' = 0
    /\ pc' = "call"
    /\ UNCHANGED <<rsi_upper, rsi_lower, out, calls, fetch_outcome, metrics>>

NextCaller == CallStep \/ CallReturn
SpecCaller == InitCaller /\ [][NextCaller]_vars

NextPair == CallStep \/ CallReturn \/ SecondCall
SpecPair == InitPair /\ [][NextPair]_vars

----------------------------------------------------------------------------
(* Properties *)

Populated(c) == c # None
Processed == 1..(IF Len(buy_signals) < Len(sell_signals)
                 THEN Len(buy_signals) ELSE Len(sell_signals))
Returned(d) == HasCol(d, "Buy_Signal") /\ HasCol(d, "Sell_Signal")
RunUi == {"info_start", "error_fetch", "error_nodata", "metrics", "chart", "dataframe"}

\* C1: no bar has both its Buy_Signal and its Sell_Signal populated, neither
\* in the two lists while the loop runs nor in the columns generate_signals
\* returns, whatever the series and the thresholds.
C1_BuySellExclusive ==
    /\ \A j \in Processed : ~(Populated(buy_signals[j]) /\ Populated(sell_signals[j]))
    /\ Returned(df) =>
          \A j \in 1..Length(df) :
              ~(Populated(df.Buy_Signal[j]) /\ Populated(df.Sell_Signal[j]))

\* generate_signals has returned a frame with a Sell and a frame position
\* without any signal
C1_Witness ==
    /\ pc = "returned"
    /\ Returned(df)
    /\ \E j \in 1..Length(df) :
          Populated(df.Sell_Signal[j]) /\ ~Populated(df.Buy_Signal[j])

C3_ShortSeriesScans ==
    (fetch_outcome = "ok" /\ Length(df) > 0 /\ Length(df) < BB_LENGTH) =>
        /\ pc # "crashed"
        /\ Returned(df) =>
              \A j \in 1..Length(df) :
                  ~Populated(df.Buy_Signal[j]) /\ ~Populated(df.Sell_Signal[j])

\* C4: a failed fetch aborts the scan with the fetch error shown: neither
\* apply_strategy nor generate_signals is entered, no metric and no chart is
\* rendered.
C4_FetchFailureAborts ==
    fetch_outcome = "failed" =>
        /\ "error_fetch" \in out
        /\ calls \cap {"apply_strategy", "generate_signals"} = {}
        /\ out \cap {"metrics", "chart", "dataframe"} = {}
        /\ metrics = NoMetrics
        /\ df = NoDf
        /\ pc \in {"branch", "ready"}

\* a scan whose fetch failed has ended
C4_Witness == fetch_outcome = "failed" /\ pc = "ready" /\ "error_fetch" \in out

\* C5 (as claimed): once a scan has left the branch at line 96, the "Data not
\* found" message is on the page exactly when the fetch returned zero bars.
C5_NoDataOnlyWhenEmpty ==
    (fetch_outcome # "none" /\ pc # "branch") =>
        ("error_nodata" \in out <=>
            (fetch_outcome = "ok" /\ df # NoDf /\ Length(df) = 0))

\* C6 (as claimed): a run that is over was not ended by an unhandled error,
\* shows a result or one of the program's messages, and the next run starts
\* from nothing of it.
C6_EveryScanEndsHandled ==
    /\ Ended => (pc = "ready" /\ out \cap RunUi # {})
    /\ pc = "fetch" => (df = NoDf /\ buy_signals = <<>> /\ sell_signals = <<>>
                        /\ i = 0 /\ out = {} /\ metrics = NoMetrics)

\* C7: the condition shown is Overbought exactly when the last bar's rsi is
\* over rsi_upper, Oversold exactly when it is under rsi_lower, Neutral
\* otherwise: one of the three for every pair the sliders offer.
C7_MarketCondition ==
    metrics # NoMetrics =>
        LET r == metrics.rsi
            over == IsNum(r) /\ r.v > rsi_upper
            under == IsNum(r) /\ r.v < rsi_lower
        IN  /\ r = df.RSI[Length(df)]
            /\ rsi_upper \in RsiUpperMin..RsiUpperMax
            /\ rsi_lower \in RsiLowerMin..RsiLowerMax
            /\ (metrics.condition = "OVERBOUGHT (Sell Zone)") <=> over
            /\ (metrics.condition = "OVERSOLD (Buy Zone)") <=> under
            /\ (metrics.condition = "NEUTRAL") <=> (~over /\ ~under)

\* the last bar's rsi equals the upper threshold: Neutral, not Overbought
C7_Witness ==
    /\ metrics # NoMetrics
    /\ metrics.rsi = Num(rsi_upper)
    /\ metrics.condition = "NEUTRAL"

SameBar(a, b, j) ==
    /\ a.Close[j] = b.Close[j]
    /\ a.RSI[j] = b.RSI[j]
    /\ a.BB_Lower[j] = b.BB_Lower[j]
    /\ a.BB_Upper[j] = b.BB_Upper[j]

\* C8: two frames classified with the same thresholds get the same signal at
\* every index where their close, rsi, bb_lower and bb_upper agree, whatever
\* their other bars are; so a truncated frame keeps the signals of the bars it
\* keeps.
C8_SignalDependsOnOwnBar ==
    (first # NoCall /\ Returned(df)) =>
        \A j \in 1..Length(df) :
            (j <= Length(first) /\ SameBar(first, df, j)) =>
                /\ df.Buy_Signal[j] = first.Buy_Signal[j]
                /\ df.Sell_Signal[j] = first.Sell_Signal[j]

\* both calls have returned; the frames differ in their last bar and share an
\* earlier bar that carries a signal
C8_Witness ==
    /\ first # NoCall
    /\ Returned(df)
    /\ Length(df) = Length(first)
    /\ ~SameBar(first, df, Length(df))
    /\ \E j \in 1..(Length(df) - 1) :
          SameBar(first, df, j) /\ Populated(first.Buy_Signal[j])

\* C9: in a series of 20 or more bars every bar whose rsi or bands are
\* undefined, so every bar below index 19, gets None in both lists.
C9_UndefinedGivesNone ==
    (pc \in {"signals", "metrics", "chart", "ready"} /\ Length(df) >= BB_LENGTH) =>
        \A j \in Processed :
            (j < BB_LENGTH \/ ~IsNum(df.RSI[j]) \/ ~IsNum(df.BB_Lower[j])
                \/ ~IsNum(df.BB_Upper[j])) =>
                (buy_signals[j] = None /\ sell_signals[j] = None)

\* the loop is over; bar 18 has a low close and a low rsi but no bands yet
C9_Witness ==
    /\ pc = "metrics"
    /\ \E j \in (RSI_LENGTH + 1)..(BB_LENGTH - 1) :
          /\ df.Close[j] = Num(1)
          /\ df.RSI[j] = Num(5)
          /\ df.BB_Lower[j] = NaN
          /\ df.Buy_Signal[j] = None

\* C10: after k iterations both lists have k entries; the returned columns
\* have the length of the frame, and a populated entry is the close of its
\* own bar.
C10_ListsAligned ==
    /\ Len(buy_signals) = i
    /\ Len(sell_signals) = i
    /\ \A j \in Processed :
          /\ Populated(buy_signals[j]) => buy_signals[j] = df.Close[j]
          /\ Populated(sell_signals[j]) => sell_signals[j] = df.Close[j]
    /\ Returned(df) =>
          /\ Len(df.Buy_Signal) = Length(df)
          /\ Len(df.Sell_Signal) = Length(df)
          /\ df.Buy_Signal = buy_signals
          /\ df.Sell_Signal = sell_signals

\* generate_signals has returned 21 aligned entries, one of them a Sell
C10_Witness ==
    /\ pc = "metrics"
    /\ Returned(df)
    /\ Length(df) > BB_LENGTH
    /\ \E j \in 1..Length(df) : df.Sell_Signal[j] = df.Close[j]

====
